---- MODULE Spec2Model ----
(***************************************************************************)
(* Model of fetch_all_records (print-battleground-state-changes.py): the   *)
(* walk over the revisions of results.json, the per-revision cache under   *)
(* _cache/, the normaliser process_json_data, and the final sort and       *)
(* grouping by state_name.                                                 *)
(*                                                                         *)
(* Representation.  A Python dict is a TLA+ record (dict.get(k, d) is Get).*)
(* A timestamp text "....:SS[.ffffff][Z|+00:00]" is the record             *)
(* [secs, frac, tz]: frac is <<>> when the text has no fraction and <<f>>  *)
(* when it has one.  A datetime is [secs, us, tzinfo].  A file of the      *)
(* cache is [kind |-> "absent"], [kind |-> "undecodable", how |-> ..],     *)
(* [kind |-> "nonmap"] (valid JSON that is not an object) or               *)
(* [kind |-> "map", map |-> m] (a JSON object m).                          *)
(***************************************************************************)
EXTENDS Integers, Sequences, FiniteSets, TLC

\* ------------------------------------------------------------------ bounds
NumRevs == 2
MaxRuns == 2
MaxIrregular == 1

\* --------------------------------------------------------------- constants
CACHE_VERSION == 2

Refs == 1..NumRevs

Get(d, k, default) == IF k \in DOMAIN d THEN d[k] ELSE default

\* ------------------------------------------------------------- timestamps
\* str.replace("Z", "+00:00") on the timestamp text (line 54).
ReplaceZ(text) == [text EXCEPT !.tz = IF @ = "Z" THEN "+00:00" ELSE @]

\* datetime.datetime.fromisoformat: a missing fraction reads as 0
\* microseconds, an offset makes the value timezone-aware.
fromisoformat(text) ==
    [secs   |-> text.secs,
     us     |-> IF text.frac = <<>> THEN 0 ELSE text.frac[1],
     tzinfo |-> IF text.tz = "" THEN "naive" ELSE "UTC"]

\* parse_isoformat: the branch taken when datetime has fromisoformat.
parse_isoformat(timestamp_str) == fromisoformat(timestamp_str)

isoformat_NoFraction(dt) ==
    [secs |-> dt.secs,
     frac |-> <<>>,
     tz   |-> IF dt.tzinfo = "UTC" THEN "+00:00" ELSE ""]

\* datetime.isoformat(): the fraction is printed only when it is not zero,
\* the offset only for an aware value.
isoformat(dt) ==
    [secs |-> dt.secs,
     frac |-> IF dt.us = 0 THEN <<>> ELSE <<dt.us>>,
     tz   |-> IF dt.tzinfo = "UTC" THEN "+00:00" ELSE ""]

\* datetime ordering (all values of one run are aware, UTC).
TimeLess(a, b) == a.secs < b.secs \/ (a.secs = b.secs /\ a.us < b.us)

\* ------------------------------------------------------------- normaliser
InputRecordFields ==
    {"timestamp", "state_name", "state_abbrev", "electoral_votes",
     "candidates", "votes", "expected_votes", "precincts_total",
     "precincts_reporting", "counties"}

\* The empty dict {} stored in InputRecord.counties.
EmptyDict == <<>>

\* Line 56: one {"last_name", "votes"} dict per candidate, in source order.
CandidateEntries(unit) ==
    LET cs == Get(unit, "candidates", <<>>)
    IN  [j \in 1..Len(cs) |->
            [last_name |-> Get(cs[j], "nyt_id", ""),
             votes     |-> cs[j].votes.total]]

\* Lines 57-68: the InputRecord of one reporting unit of one race.
UnitRecord(race, unit) ==
    [timestamp           |-> fromisoformat(ReplaceZ(race.updated_at)),
     state_name          |-> Get(unit, "name", "Unknown"),
     state_abbrev        |-> Get(unit, "state_abb", "Unknown"),
     electoral_votes     |-> Get(race, "electoral_votes", 0),
     candidates          |-> CandidateEntries(unit),
     votes               |-> Get(unit, "total_votes", 0),
     expected_votes      |-> Get(unit, "total_expected_vote", 0),
     precincts_total     |-> Get(unit, "precincts_total", 0),
     precincts_reporting |-> Get(unit, "precincts_reporting", 0),
     counties            |-> EmptyDict]

RaceRecords_FirstUnit(race) ==
    LET us == Get(race, "reporting_units", <<>>)
    IN  [j \in 1..(IF Len(us) = 0 THEN 0 ELSE 1) |->
            UnitRecord(race, us[j])]

RaceRecords(race) ==
    LET us == Get(race, "reporting_units", <<>>)
    IN  [j \in 1..Len(us) |-> UnitRecord(race, us[j])]

\* race.get("updated_at") is None (AttributeError on .replace), or a
\* candidate without votes.total (KeyError): process_json_data raises.
RaceRaises(race) ==
    \/ "updated_at" \notin DOMAIN race
    \/ LET us == Get(race, "reporting_units", <<>>)
       IN  \E j \in 1..Len(us) :
             LET cs == Get(us[j], "candidates", <<>>)
             IN  \E c \in 1..Len(cs) :
                   \/ "votes" \notin DOMAIN cs[c]
                   \/ "total" \notin DOMAIN cs[c].votes

RECURSIVE ConcatRaces(_, _)
ConcatRaces(races, n) ==
    IF n = 0 THEN <<>>
    ELSE ConcatRaces(races, n - 1) \o RaceRecords(races[n])

\* The exception of the first race that raises: line 54 runs before the
\* units of the race are read, so a race without updated_at gives
\* AttributeError whatever its candidates; otherwise line 56 gives KeyError.
RaceError(race) ==
    IF "updated_at" \notin DOMAIN race THEN "AttributeError" ELSE "KeyError"

\* process_json_data: [ok |-> FALSE] and the exception when it raises, else
\* the records of every (race, reporting unit) pair in document order.
process_json_data(json_data) ==
    LET races == Get(json_data, "races", <<>>)
        bad   == {n \in 1..Len(races) : RaceRaises(races[n])}
    IN  IF bad # {}
        THEN [ok |-> FALSE, rows |-> <<>>,
              err |-> RaceError(races[CHOOSE n \in bad : \A m \in bad : n <= m])]
        ELSE [ok |-> TRUE, rows |-> ConcatRaces(races, Len(races)), err |-> ""]

\* ------------------------------------------------------------------ cache
\* The hexsha of revision r, as a sequence of characters.  Revisions 1 and
\* 2 differ in the last character only, revisions 1 and 3 in the second.
HexDigits == <<"0", "1", "2", "3", "4", "5", "6", "7">>

Hexsha(r) ==
    <<"a", HexDigits[((r - 1) \div 2) + 1], "0", HexDigits[((r - 1) % 2) + 1]>>

cache_path_DirOnly(ref) ==
    [dir  |-> SubSeq(Hexsha(ref), 1, 2),
     file |-> <<".json">>]

\* Line 89: os.path.join(CACHE_DIR, ref[:2], ref[2:] + ".json").
cache_path(ref) ==
    [dir  |-> SubSeq(Hexsha(ref), 1, 2),
     file |-> SubSeq(Hexsha(ref), 3, Len(Hexsha(ref))) \o <<".json">>]

Paths == {cache_path(r) : r \in Refs}

\* The path of every revision, computed once.
PathOf == [r \in Refs |-> cache_path(r)]

Absent == [kind |-> "absent"]
Undecodable(how) == [kind |-> "undecodable", how |-> how]
NonMap == [kind |-> "nonmap"]
MapFile(m) == [kind |-> "map", map |-> m]

\* Lines 112-115: row._asdict() with the timestamp as isoformat text.
RowForCache(row) == [row EXCEPT !.timestamp = isoformat(@)]

\* Lines 112-117: the document json.dump writes for the rows of a revision.
CacheEntryFor(rs) ==
    MapFile([version |-> CACHE_VERSION,
             rows    |-> [j \in 1..Len(rs) |-> RowForCache(rs[j])]])

\* Lines 99-102: row_data['timestamp'] needs the key, InputRecord(**row_data)
\* needs exactly the fields of InputRecord.
RowLoads(row) == DOMAIN row = InputRecordFields

LoadRow(row) == [row EXCEPT !.timestamp = parse_isoformat(@)]

LoadRows_DropLast(file) ==
    LET rs == Get(file.map, "rows", <<>>)
    IN  [j \in 1..(IF Len(rs) = 0 THEN 0 ELSE Len(rs) - 1) |->
            LoadRow(rs[j])]

\* Lines 98-102: the records a current-version entry yields.
LoadRows(file) ==
    LET rs == Get(file.map, "rows", <<>>)
    IN  [j \in 1..Len(rs) |-> LoadRow(rs[j])]

\* Lines 97-102 when the read of a decodable file raises: the exception,
\* and the records line 102 appended to out before it.  record.get on a
\* document that is not a map is AttributeError; a row without "timestamp"
\* is KeyError at line 100; a row with "timestamp" whose fields are not
\* exactly those of InputRecord is TypeError at line 102.
LoadFailure(file) ==
    IF file.kind = "nonmap" THEN [err |-> "AttributeError", rows |-> <<>>]
    ELSE LET rs  == Get(file.map, "rows", <<>>)
             bad == {j \in 1..Len(rs) : ~RowLoads(rs[j])}
             b   == CHOOSE j \in bad : \A k \in bad : j <= k
         IN  [err  |-> IF "timestamp" \notin DOMAIN rs[b]
                       THEN "KeyError" ELSE "TypeError",
              rows |-> [j \in 1..(b - 1) |-> LoadRow(rs[j])]]

CacheLookup_AlwaysMiss(file) ==
    CASE file.kind = "absent"      -> "miss"
      [] file.kind = "undecodable" -> "skip"
      [] file.kind = "nonmap"      -> "raise"
      [] file.kind = "map"         -> "miss"

CacheLookup_IgnoreVersion(file) ==
    CASE file.kind = "absent"      -> "miss"
      [] file.kind = "undecodable" -> "skip"
      [] file.kind = "nonmap"      -> "raise"
      [] file.kind = "map" ->
            LET rs == Get(file.map, "rows", <<>>)
            IN  IF \E j \in 1..Len(rs) : ~RowLoads(rs[j])
                THEN "raise" ELSE "hit"

\* Lines 91-103: what the loop does with the file at cache_path.
\*   "miss"  - no file, or a map whose version is not CACHE_VERSION:
\*             falls through to the fetch at line 105
\*   "skip"  - json.load raised ValueError: continue (line 96)
\*   "raise" - record.get on a non-map, or a row that does not build an
\*             InputRecord: the exception leaves fetch_all_records
\*   "hit"   - rows appended to out, continue (line 103)
CacheLookup(file) ==
    CASE file.kind = "absent"      -> "miss"
      [] file.kind = "undecodable" -> "skip"
      [] file.kind = "nonmap"      -> "raise"
      [] file.kind = "map" ->
            IF "version" \in DOMAIN file.map
               /\ file.map.version = CACHE_VERSION
            THEN LET rs == Get(file.map, "rows", <<>>)
                 IN  IF \E j \in 1..Len(rs) : ~RowLoads(rs[j])
                     THEN "raise" ELSE "hit"
            ELSE "miss"

\* Lines 105-108: git_show, parser.parse, process_json_data for one
\* revision.  err names the exception that leaves fetch_all_records.
FetchResult(blob) ==
    CASE blob.kind = "deleted" ->
            [ok |-> FALSE, err |-> "KeyError", rows |-> <<>>]
      [] blob.kind = "garbled" ->
            [ok |-> FALSE, err |-> "ValueError", rows |-> <<>>]
      [] blob.kind = "json" ->
            LET r == process_json_data(blob.doc)
            IN  [ok |-> r.ok, err |-> r.err, rows |-> r.rows]

\* ------------------------------------------------------- sort and grouping
\* Insertion of r behind every element whose key is not greater: the
\* position a stable sort gives the last-appended element.
RECURSIVE InsertUnstable(_, _)
InsertUnstable(sorted, r) ==
    IF sorted = <<>> THEN <<r>>
    ELSE IF TimeLess(sorted[Len(sorted)].timestamp, r.timestamp)
         THEN Append(sorted, r)
         ELSE Append(InsertUnstable(SubSeq(sorted, 1, Len(sorted) - 1), r),
                     sorted[Len(sorted)])

InsertStable_Append(sorted, r) == Append(sorted, r)

RECURSIVE InsertStable(_, _)
InsertStable(sorted, r) ==
    IF sorted = <<>> THEN <<r>>
    ELSE IF TimeLess(r.timestamp, sorted[Len(sorted)].timestamp)
         THEN Append(InsertStable(SubSeq(sorted, 1, Len(sorted) - 1), r),
                     sorted[Len(sorted)])
         ELSE Append(sorted, r)

RECURSIVE SortPrefix(_, _)
SortPrefix(s, n) ==
    IF n = 0 THEN <<>> ELSE InsertStable(SortPrefix(s, n - 1), s[n])

SortByTimestamp_NoSort(s) == s

\* Line 119: out.sort(key=timestamp), a stable sort.
SortByTimestamp(s) == SortPrefix(s, Len(s))

GroupBy_FirstOnly(s) ==
    [k \in {s[j].state_name : j \in 1..Len(s)} |->
        LET g == SelectSeq(s, LAMBDA r : r.state_name = k)
        IN  <<g[1]>>]

\* Lines 120-122: grouped[row.state_name].append(row) over the sorted rows.
GroupBy(s) ==
    [k \in {s[j].state_name : j \in 1..Len(s)} |->
        SelectSeq(s, LAMBDA r : r.state_name = k)]

\* ------------------------------------------------- histories of the model
\* Timestamp texts of the documents: "..:02Z", "..:02.000000Z", "..:01.5Z".
TextLate     == [secs |-> 2, frac |-> <<>>,    tz |-> "Z"]
TextLateZero == [secs |-> 2, frac |-> <<0>>,   tz |-> "Z"]
TextEarly    == [secs |-> 1, frac |-> <<500>>, tz |-> "Z"]

Cand(id, n) == [nyt_id |-> id, votes |-> [total |-> n]]

\* One race, one reporting unit (the Nevada example of the specification).
DocA ==
    [races |-> <<
        [updated_at |-> TextLate, electoral_votes |-> 6,
         reporting_units |-> <<
            [name |-> "Nevada", state_abb |-> "NV",
             candidates |-> <<Cand("X", 100), Cand("Y", 80)>>,
             total_votes |-> 180, total_expected_vote |-> 300,
             precincts_total |-> 10, precincts_reporting |-> 4]>>]>>]

\* Three races; the later race comes first, Nevada occurs in two, one unit
\* has no name, no code and no candidates, one race has no weight, one
\* race has no reporting units.
DocB ==
    [races |-> <<
        [updated_at |-> TextLateZero, electoral_votes |-> 6,
         reporting_units |-> <<
            [name |-> "Nevada", state_abb |-> "NV",
             candidates |-> <<Cand("Y", 90), Cand("X", 150)>>,
             total_votes |-> 240, total_expected_vote |-> 300,
             precincts_total |-> 10, precincts_reporting |-> 6],
            [total_votes |-> 7]>>],
        [updated_at |-> TextEarly,
         reporting_units |-> <<
            [name |-> "Georgia", state_abb |-> "GA",
             candidates |-> <<[votes |-> [total |-> 5]]>>,
             total_votes |-> 5],
            [name |-> "Nevada", state_abb |-> "NV",
             candidates |-> <<Cand("X", 50)>>,
             total_votes |-> 50]>>],
        [updated_at |-> TextLate, electoral_votes |-> 3]>>]

\* Two races, none with a reporting unit.
DocC ==
    [races |-> <<[updated_at |-> TextEarly, electoral_votes |-> 3],
                 [updated_at |-> TextLate, reporting_units |-> <<>>]>>]

\* A document without races.
DocNoRaces == [meta |-> "none"]

\* A race without updated_at: process_json_data raises.
DocMalformed ==
    [races |-> <<[electoral_votes |-> 6, reporting_units |-> <<>>]>>]

\* A candidate without "votes", one whose votes has no "total", in a race
\* that precedes a race without updated_at: line 56 raises KeyError before
\* line 54 reaches the second race.
DocNoVotes ==
    [races |-> <<
        [updated_at |-> TextLate, electoral_votes |-> 6,
         reporting_units |-> <<
            [name |-> "Nevada", state_abb |-> "NV",
             candidates |-> <<Cand("X", 1), [nyt_id |-> "Y"]>>,
             total_votes |-> 1],
            [name |-> "Georgia", state_abb |-> "GA",
             candidates |-> <<[nyt_id |-> "Y", votes |-> EmptyDict]>>]>>],
        [electoral_votes |-> 3]>>]

\* What results.json is at a revision, by name: one of the documents,
\* bytes that are not JSON ("garbled"), or not in the tree of that commit
\* ("deleted").
GoodContents == {"A", "B"}
BadContents == {"deleted", "garbled", "malformed"}
Contents == GoodContents \cup BadContents

Json(doc) == [kind |-> "json", doc |-> doc]

Blob(c) ==
    CASE c = "A"         -> Json(DocA)
      [] c = "B"         -> Json(DocB)
      [] c = "C"         -> Json(DocC)
      [] c = "N"         -> Json(DocNoRaces)
      [] c = "malformed" -> Json(DocMalformed)
      [] c = "novotes"   -> Json(DocNoVotes)
      [] c = "garbled"   -> [kind |-> "garbled"]
      [] c = "deleted"   -> [kind |-> "deleted"]

\* A row written by an earlier format of the cache.
StaleRow == [state_name |-> "Stale", votes |-> 1]

\* A row that has its timestamp and no other field of InputRecord.
ShortRow == [timestamp |-> isoformat(fromisoformat(ReplaceZ(TextLate)))]

\* The first row of the entry of document A, as an earlier run wrote it.
WholeRow == RowForCache(FetchResult(Json(DocA)).rows[1])

\* The files a revision with content c can have at _cache/<ref> before a
\* run: the entry an earlier run wrote, or a file damaged or written by
\* other code.
RegularFiles(c) ==
    {Absent} \cup
    (IF FetchResult(Blob(c)).ok
     THEN {CacheEntryFor(FetchResult(Blob(c)).rows)} ELSE {})

IrregularFiles ==
    {Undecodable("garbage"),
     NonMap,
     MapFile([rows |-> <<>>]),
     MapFile([version |-> CACHE_VERSION - 1, rows |-> <<StaleRow>>]),
     MapFile([version |-> CACHE_VERSION]),
     MapFile([version |-> CACHE_VERSION, rows |-> <<StaleRow>>]),
     MapFile([version |-> CACHE_VERSION, rows |-> <<WholeRow, ShortRow>>])}

\* No run writes an entry for a revision it cannot fetch: the histories of
\* the model give such a revision no file.
Files(c) ==
    IF c \in BadContents THEN {Absent}
    ELSE RegularFiles(c) \cup IrregularFiles

Irregular(c, f) == c \in BadContents \/ f \in IrregularFiles

\* ------------------------------------------------------------------ state
VARIABLES
    content,     \* ref -> what results.json is at that revision
    cache,       \* path -> the file at that path under _cache/
    pc,          \* "idle", "loop", "fetched", "writing", "done", "raised",
                 \* "killed"
    err,         \* the exception that ended the run, "" when none
    commits,     \* the list git_commits_for returned
    i,           \* index in commits of the revision the loop is at
    out,         \* the list out
    rows,        \* the list rows of the revision being written
    grouped,     \* the value returned at line 124
    run,         \* number of runs started
    cacheStart,  \* the cache when the current run started
    fetched,     \* refs whose content this run fetched (line 105)
    wrote,       \* refs whose file this run opened for writing (line 116)
    at,          \* where the run was when it was interrupted
    unsorted,    \* out as it was before the sort of line 119
    prev         \* status, result and caches of the run before this one

vars == <<content, cache, pc, err, commits, i, out, rows, grouped, run,
          cacheStart, fetched, wrote, at, unsorted, prev>>

NoGroups == GroupBy(<<>>)

\* git_show(ref, 'results.json', repo): the blob of that revision.
git_show(ref) == Blob(content[ref])

\* git log --format=%H results.json: the revisions, in listing order.
git_commits_for == [j \in 1..NumRevs |-> j]

Init ==
    /\ content \in [Refs -> Contents]
    /\ cache \in [Paths -> UNION {Files(c) : c \in Contents}]
    /\ \A r \in Refs : cache[PathOf[r]] \in Files(content[r])
    /\ Cardinality({r \in Refs : Irregular(content[r], cache[PathOf[r]])})
          <= MaxIrregular
    /\ pc = "idle"
    /\ err = ""
    /\ commits = <<>>
    /\ i = 1
    /\ out = <<>>
    /\ rows = <<>>
    /\ grouped = NoGroups
    /\ run = 0
    /\ cacheStart = cache
    /\ fetched = {}
    /\ wrote = {}
    /\ at = ""
    /\ unsorted = <<>>
    /\ prev = [status |-> "none", grouped |-> NoGroups,
               cacheStart |-> cache, at |-> "", i |-> 1,
               wrote |-> {}, fetched |-> {}]

Stopped == pc \in {"idle", "done", "raised", "killed"}

Remember ==
    prev' = IF pc = "idle" THEN prev
            ELSE [status |-> pc, grouped |-> grouped,
                  cacheStart |-> cacheStart, at |-> at,
                  i |-> i, wrote |-> wrote, fetched |-> fetched]

\* Lines 83-86: the program is started and the revisions are listed.
StartRun ==
    /\ Stopped
    /\ run < MaxRuns
    /\ Remember
    /\ run' = run + 1
    /\ commits' = git_commits_for
    /\ pc' = "loop"
    /\ err' = ""
    /\ i' = 1
    /\ out' = <<>>
    /\ rows' = <<>>
    /\ grouped' = NoGroups
    /\ cacheStart' = cache
    /\ fetched' = {}
    /\ wrote' = {}
    /\ at' = ""
    /\ unsorted' = <<>>
    /\ UNCHANGED <<content, cache>>

ListFails_Swallowed ==
    /\ Stopped
    /\ run < MaxRuns
    /\ Remember
    /\ run' = run + 1
    /\ commits' = <<>>
    /\ pc' = "loop"
    /\ err' = "CalledProcessError"
    /\ i' = 1
    /\ out' = <<>>
    /\ rows' = <<>>
    /\ grouped' = NoGroups
    /\ cacheStart' = cache
    /\ fetched' = {}
    /\ wrote' = {}
    /\ at' = ""
    /\ unsorted' = <<>>
    /\ UNCHANGED <<content, cache>>

\* Line 83 / line 36: git log fails, check_output raises.
ListFails ==
    /\ Stopped
    /\ run < MaxRuns
    /\ Remember
    /\ run' = run + 1
    /\ commits' = <<>>
    /\ pc' = "raised"
    /\ err' = "CalledProcessError"
    /\ i' = 1
    /\ out' = <<>>
    /\ rows' = <<>>
    /\ grouped' = NoGroups
    /\ cacheStart' = cache
    /\ fetched' = {}
    /\ wrote' = {}
    /\ at' = ""
    /\ unsorted' = <<>>
    /\ UNCHANGED <<content, cache>>

InLoop == pc = "loop" /\ i <= Len(commits)

\* Lines 91-96: the file exists and json.load raises ValueError: continue.
CacheSkip ==
    /\ InLoop
    /\ CacheLookup(cache[PathOf[commits[i]]]) = "skip"
    /\ i' = i + 1
    /\ UNCHANGED <<content, cache, pc, err, commits, out, rows, grouped, run,
                   cacheStart, fetched, wrote, at, unsorted, prev>>

\* Lines 97-102: record.get or the construction of a row raises.
CacheRaise ==
    /\ InLoop
    /\ CacheLookup(cache[PathOf[commits[i]]]) = "raise"
    /\ pc' = "raised"
    /\ err' = LoadFailure(cache[PathOf[commits[i]]]).err
    /\ out' = out \o LoadFailure(cache[PathOf[commits[i]]]).rows
    /\ UNCHANGED <<content, cache, commits, i, rows, grouped, run,
                   cacheStart, fetched, wrote, at, unsorted, prev>>

CacheHit_NoContinue ==
    /\ InLoop
    /\ CacheLookup(cache[PathOf[commits[i]]]) = "hit"
    /\ fetched' = fetched \cup {commits[i]}
    /\ IF FetchResult(git_show(commits[i])).ok
       THEN /\ rows' = FetchResult(git_show(commits[i])).rows
            /\ out' = out \o LoadRows(cache[PathOf[commits[i]]]) \o rows'
            /\ pc' = "fetched"
            /\ err' = err
       ELSE /\ rows' = rows
            /\ out' = out \o LoadRows(cache[PathOf[commits[i]]])
            /\ pc' = "raised"
            /\ err' = FetchResult(git_show(commits[i])).err
    /\ UNCHANGED <<content, cache, commits, i, grouped, run,
                   cacheStart, wrote, at, unsorted, prev>>

\* Lines 97-103: a current-version entry; its rows are appended to out.
CacheHit ==
    /\ InLoop
    /\ CacheLookup(cache[PathOf[commits[i]]]) = "hit"
    /\ out' = out \o LoadRows(cache[PathOf[commits[i]]])
    /\ i' = i + 1
    /\ UNCHANGED <<content, cache, pc, err, commits, rows, grouped, run,
                   cacheStart, fetched, wrote, at, unsorted, prev>>

FetchAndNormalize_ExtendTwice ==
    /\ InLoop
    /\ CacheLookup(cache[PathOf[commits[i]]]) = "miss"
    /\ FetchResult(git_show(commits[i])).ok
    /\ rows' = FetchResult(git_show(commits[i])).rows
    /\ out' = out \o rows' \o rows'
    /\ fetched' = fetched \cup {commits[i]}
    /\ pc' = "fetched"
    /\ UNCHANGED <<content, cache, err, commits, i, grouped, run,
                   cacheStart, wrote, at, unsorted, prev>>

\* Lines 105-109: fetch, parse, normalise, out.extend(rows).
FetchAndNormalize ==
    /\ InLoop
    /\ CacheLookup(cache[PathOf[commits[i]]]) = "miss"
    /\ FetchResult(git_show(commits[i])).ok
    /\ rows' = FetchResult(git_show(commits[i])).rows
    /\ out' = out \o rows'
    /\ fetched' = fetched \cup {commits[i]}
    /\ pc' = "fetched"
    /\ UNCHANGED <<content, cache, err, commits, i, grouped, run,
                   cacheStart, wrote, at, unsorted, prev>>

\* Lines 105-108: git_show, parser.parse or process_json_data raises; no
\* handler encloses them.
FetchRaises ==
    /\ InLoop
    /\ CacheLookup(cache[PathOf[commits[i]]]) = "miss"
    /\ ~FetchResult(git_show(commits[i])).ok
    /\ fetched' = fetched \cup {commits[i]}
    /\ pc' = "raised"
    /\ err' = FetchResult(git_show(commits[i])).err
    /\ UNCHANGED <<content, cache, commits, i, out, rows, grouped, run,
                   cacheStart, wrote, at, unsorted, prev>>

\* Lines 111-116: makedirs, then open(cache_path, 'w') creates the file or
\* truncates it to length zero.
OpenForWrite ==
    /\ pc = "fetched"
    /\ cache' = [cache EXCEPT ![PathOf[commits[i]]] = Undecodable("empty")]
    /\ wrote' = wrote \cup {commits[i]}
    /\ pc' = "writing"
    /\ UNCHANGED <<content, err, commits, i, out, rows, grouped, run,
                   cacheStart, fetched, at, unsorted, prev>>

\* Line 117 and the end of the with block: the document is written and
\* the file closed; the loop goes on to the next revision.
DumpAndClose ==
    /\ pc = "writing"
    /\ cache' = [cache EXCEPT ![PathOf[commits[i]]] = CacheEntryFor(rows)]
    /\ i' = i + 1
    /\ pc' = "loop"
    /\ UNCHANGED <<content, err, commits, out, rows, grouped, run,
                   cacheStart, fetched, wrote, at, unsorted, prev>>

\* Lines 119-124: sort, group, return.
SortAndGroup ==
    /\ pc = "loop"
    /\ i > Len(commits)
    /\ unsorted' = out
    /\ out' = SortByTimestamp(out)
    /\ grouped' = GroupBy(out')
    /\ pc' = "done"
    /\ UNCHANGED <<content, cache, err, commits, i, rows, run,
                   cacheStart, fetched, wrote, at, prev>>

\* What the file can hold when the process stops while it is open for
\* writing (lines 116-117): no bytes, a prefix of the document, or, after
\* the last write of json.dump and before the with block ends, all of it.
StoppedWrite(rs) ==
    {Undecodable("empty"), Undecodable("partial"), CacheEntryFor(rs)}

\* The process is stopped from outside (signal, power loss): between
\* iterations or in the sort after the loop, after the fetch of a
\* revision, or inside its write-back.  Only the last changes the disk.
Interrupt ==
    /\ pc \in {"loop", "fetched", "writing"}
    /\ at' = pc
    /\ pc' = "killed"
    /\ IF pc = "writing"
       THEN \E f \in StoppedWrite(rows) :
               cache' = [cache EXCEPT ![PathOf[commits[i]]] = f]
       ELSE cache' = cache
    /\ UNCHANGED <<content, err, commits, i, out, rows, grouped, run,
                   cacheStart, fetched, wrote, unsorted, prev>>

Next ==
    \/ StartRun
    \/ ListFails
    \/ CacheSkip
    \/ CacheRaise
    \/ CacheHit
    \/ FetchAndNormalize
    \/ FetchRaises
    \/ OpenForWrite
    \/ DumpAndClose
    \/ SortAndGroup
    \/ Interrupt

Spec == Init /\ [][Next]_vars

\* Runs over histories of documents only, started on an empty cache: the
\* inputs of the normaliser.
DocNames == {"A", "B", "C", "N", "malformed", "novotes"}

InitDocs ==
    /\ content \in [Refs -> DocNames]
    /\ cache = [p \in Paths |-> Absent]
    /\ pc = "idle"
    /\ err = ""
    /\ commits = <<>>
    /\ i = 1
    /\ out = <<>>
    /\ rows = <<>>
    /\ grouped = NoGroups
    /\ run = 0
    /\ cacheStart = cache
    /\ fetched = {}
    /\ wrote = {}
    /\ at = ""
    /\ unsorted = <<>>
    /\ prev = [status |-> "none", grouped |-> NoGroups,
               cacheStart |-> cache, at |-> "", i |-> 1,
               wrote |-> {}, fetched |-> {}]

NextDocs ==
    \/ StartRun
    \/ CacheHit
    \/ FetchAndNormalize
    \/ FetchRaises
    \/ OpenForWrite
    \/ DumpAndClose
    \/ SortAndGroup

SpecDocs == InitDocs /\ [][NextDocs]_vars

\* ---------------------------------------------------- a run as a function
\* The loop of lines 88-117 over the first n revisions of order, started
\* on the cache c0 and not interrupted: out, the cache and whether an
\* exception left the loop.
RECURSIVE Walk(_, _, _)
Walk(order, n, c0) ==
    IF n = 0 THEN [status |-> "ok", out |-> <<>>, cache |-> c0]
    ELSE LET st   == Walk(order, n - 1, c0)
             ref  == order[n]
             look == CacheLookup(st.cache[PathOf[ref]])
             f    == FetchResult(git_show(ref))
         IN  IF st.status # "ok" THEN st
             ELSE CASE look = "skip"  -> st
                    [] look = "raise" ->
                         [st EXCEPT !.status = "raised",
                                    !.out = @ \o LoadFailure(st.cache[PathOf[ref]]).rows]
                    [] look = "hit"   ->
                         [st EXCEPT !.out = @ \o LoadRows(st.cache[PathOf[ref]])]
                    [] look = "miss"  ->
                         IF f.ok
                         THEN [st EXCEPT !.out = @ \o f.rows,
                                         !.cache[PathOf[ref]] = CacheEntryFor(f.rows)]
                         ELSE [st EXCEPT !.status = "raised"]

\* fetch_all_records as a function of the listing and the cache it finds.
RunOutcome(order, c0) ==
    LET st == Walk(order, Len(order), c0)
    IN  IF st.status = "ok"
        THEN [status |-> "done", cache |-> st.cache,
              grouped |-> GroupBy(SortByTimestamp(st.out))]
        ELSE [status |-> "raised", cache |-> st.cache, grouped |-> NoGroups]

\* ----------------------------------------------------- notions of claims
RowsOf(r) == FetchResult(git_show(r)).rows

Pos(r) == CHOOSE j \in 1..Len(commits) : commits[j] = r

Count(s, x) == Cardinality({j \in 1..Len(s) : s[j] = x})

SameBag(s, t) ==
    /\ Len(s) = Len(t)
    /\ \A j \in 1..Len(s) : Count(s, s[j]) = Count(t, s[j])

TimeOrdered(s) ==
    \A a, b \in 1..Len(s) :
        a < b => ~TimeLess(s[b].timestamp, s[a].timestamp)

Times(s) == {s[j].timestamp : j \in 1..Len(s)}

At(s, t) == SelectSeq(s, LAMBDA r : r.timestamp = t)

Keyed(s, k) == SelectSeq(s, LAMBDA r : r.state_name = k)

\* The rows of the listed revisions outside skip, in listing order.
RECURSIVE ConcatRows(_, _, _)
ConcatRows(order, n, skip) ==
    IF n = 0 THEN <<>>
    ELSE ConcatRows(order, n - 1, skip)
            \o (IF order[n] \in skip THEN <<>> ELSE RowsOf(order[n]))

Listed == commits # <<>>

\* The loop has decided what to do with the file of revision r.
Handled(r) ==
    /\ Listed
    /\ \/ Pos(r) < i
       \/ Pos(r) = i /\ pc \in {"fetched", "writing", "raised"}
       \/ Pos(r) = i /\ pc = "killed" /\ at \in {"fetched", "writing"}

StaleVersion(f) ==
    /\ f.kind = "map"
    /\ "version" \in DOMAIN f.map
    /\ f.map.version # CACHE_VERSION

Torn(f) == f.kind = "undecodable" /\ f.how \in {"empty", "partial"}

Orders == {p \in [1..NumRevs -> Refs] : \A r \in Refs : \E j \in 1..NumRevs : p[j] = r}

\* ------------------------------------------------------------------ claims

\* C1 (fault isolation): when exactly one listed revision k cannot be
\* fetched or normalised and has no cache entry, the run does not raise and
\* returns exactly the records of the other revisions.
C1_FaultIsolation ==
    \A k \in Refs :
        ( /\ Listed
          /\ ~FetchResult(git_show(k)).ok
          /\ cacheStart[PathOf[k]] = Absent
          /\ \A r \in Refs \ {k} :
                /\ FetchResult(git_show(r)).ok
                /\ cacheStart[PathOf[r]] \in RegularFiles(content[r]) )
        => /\ pc # "raised"
           /\ pc = "done" =>
                grouped = GroupBy(SortByTimestamp(
                              ConcatRows(commits, Len(commits), {k})))

\* C2 (the three miss cases alike): a revision whose entry is absent,
\* undecodable or of another version is re-fetched, and a completed run
\* returns what it returns when the entry is absent.
C2_MissCasesAlike ==
    pc = "done" =>
        \A r \in Refs :
            ( \/ cacheStart[PathOf[r]].kind \in {"absent", "undecodable"}
              \/ StaleVersion(cacheStart[PathOf[r]]) )
            => /\ r \in fetched
               /\ grouped =
                    RunOutcome(commits,
                               [cacheStart EXCEPT ![PathOf[r]] = Absent]).grouped

\* C3 (version invalidation): an entry of another version is never the
\* source of records: once the loop has dealt with its revision the
\* revision has been fetched, and when the run completes the entry holds
\* CACHE_VERSION and the freshly normalised rows, which are in out.
C3_VersionInvalidation ==
    \A r \in Refs :
        StaleVersion(cacheStart[PathOf[r]]) =>
            /\ Handled(r) => r \in fetched
            /\ pc = "done" =>
                  /\ cache[PathOf[r]] = CacheEntryFor(RowsOf(r))
                  /\ cache[PathOf[r]].map.version = CACHE_VERSION
                  /\ \A j \in 1..Len(RowsOf(r)) :
                        Count(out, RowsOf(r)[j]) >= 1
                  /\ \A j \in 1..Len(cacheStart[PathOf[r]].map.rows) :
                        cacheStart[PathOf[r]].map.rows[j].state_name
                            \notin DOMAIN grouped

C3_Witness ==
    /\ pc = "done"
    /\ \E r \in Refs :
          /\ StaleVersion(cacheStart[PathOf[r]])
          /\ cacheStart[PathOf[r]].map.rows # <<>>
          /\ cache[PathOf[r]].kind = "map"
          /\ cache[PathOf[r]].map.version = CACHE_VERSION
          /\ Len(cache[PathOf[r]].map.rows) >= 2

\* C4 (idempotence): a run that follows a completed run writes no cache
\* file, leaves every entry as the first run left it, and on completion
\* returns the Grouped Series the first run returned.
C4_Idempotence ==
    prev.status = "done" =>
        /\ wrote = {}
        /\ cache = cacheStart
        /\ pc = "done" => grouped = prev.grouped

C4_Witness ==
    /\ pc = "done"
    /\ prev.status = "done"
    /\ prev.wrote # {}
    /\ \E k \in DOMAIN grouped : Len(grouped[k]) >= 2

\* C5 (cache round trip): the entry a run wrote for a revision is read
\* back, under the same CACHE_VERSION, as the records that were written:
\* same number, same order, same fields, same order of candidates.
C5_CacheRoundTrip ==
    \A r \in wrote :
        cache[PathOf[r]].kind = "map" =>
            /\ CacheLookup(cache[PathOf[r]]) = "hit"
            /\ LoadRows(cache[PathOf[r]]) = RowsOf(r)

C5_Witness ==
    \E r \in wrote :
        /\ cache[PathOf[r]].kind = "map"
        /\ \E j \in 1..Len(RowsOf(r)) :
              /\ RowsOf(r)[j].timestamp.us # 0
              /\ cache[PathOf[r]].map.rows[j].timestamp.frac # <<>>
        /\ \E j \in 1..Len(RowsOf(r)) :
              /\ RowsOf(r)[j].timestamp.us = 0
              /\ Len(RowsOf(r)[j].candidates) >= 2
              /\ cache[PathOf[r]].map.rows[j].timestamp.frac = <<>>

\* C6 (sort stability): records with equal timestamps keep the order in
\* which they were appended, in the sorted sequence and in every group.
C6_SortStability ==
    pc = "done" =>
        \A t \in Times(unsorted) :
            /\ At(out, t) = At(unsorted, t)
            /\ \A k \in DOMAIN grouped :
                  At(grouped[k], t) = At(Keyed(unsorted, k), t)

C6_Witness ==
    /\ pc = "done"
    /\ out # unsorted
    /\ \E a, b \in 1..Len(unsorted) :
          /\ a < b
          /\ unsorted[a].timestamp = unsorted[b].timestamp
          /\ unsorted[a].state_name = unsorted[b].state_name
          /\ unsorted[a] # unsorted[b]

\* C7 (grouping completeness): every record of the sorted sequence is in
\* the group of its own state_name as often as it is in the sequence and
\* in no other group; a group holds only records of its key and is not
\* empty.
C7_GroupingCompleteness ==
    pc = "done" =>
        /\ \A j \in 1..Len(out) :
              /\ out[j].state_name \in DOMAIN grouped
              /\ \A k \in DOMAIN grouped :
                    Count(grouped[k], out[j]) =
                        (IF k = out[j].state_name
                         THEN Count(out, out[j]) ELSE 0)
        /\ \A k \in DOMAIN grouped :
              /\ grouped[k] # <<>>
              /\ Len(grouped[k]) = Len(Keyed(out, k))
              /\ \A j \in 1..Len(grouped[k]) :
                    /\ grouped[k][j].state_name = k
                    /\ Count(out, grouped[k][j]) >= 1

C7_Witness ==
    /\ pc = "done"
    /\ Cardinality(DOMAIN grouped) >= 3
    /\ "Unknown" \in DOMAIN grouped
    /\ \E k \in DOMAIN grouped : Len(grouped[k]) >= 3

\* C8 (atomic cache write): no run comes to a revision whose file is
\* empty or holds a part of an entry.
C8_AtomicCacheWrite ==
    ~(InLoop /\ Torn(cache[PathOf[commits[i]]]))

\* C9 (crash recovery): after a run that was interrupted between the fetch
\* of a revision and the opening of its cache file, the next completed run
\* fetches that revision again and returns what an uninterrupted run over
\* the same history and the same cache returns.
C9_CrashRecovery ==
    (pc = "done" /\ prev.status = "killed" /\ prev.at = "fetched") =>
        /\ commits[prev.i] \in fetched
        /\ RunOutcome(commits, prev.cacheStart).status = "done"
        /\ grouped = RunOutcome(commits, prev.cacheStart).grouped

C9_Witness ==
    /\ pc = "done"
    /\ prev.status = "killed"
    /\ prev.at = "fetched"
    /\ prev.i >= 2
    /\ prev.wrote # {}
    /\ commits[prev.i] \in fetched
    /\ \E k \in DOMAIN grouped : Len(grouped[k]) >= 2

\* C10 as claimed (lister order): a completed run returns the Grouped
\* Series that a run with any other listing order of the same revisions
\* returns from the same cache.
C10_ListerOrderIrrelevant ==
    pc = "done" =>
        \A p \in Orders : RunOutcome(p, cacheStart).grouped = grouped

\* C10 as amended: for every listing order the run completes with the
\* same group keys, every group holds the same records the same number of
\* times, in non-decreasing timestamp order; only the order of records
\* with equal timestamps follows the listing order.
C10_ListerOrderUpToTies ==
    pc = "done" =>
        \A p \in Orders :
            LET o == RunOutcome(p, cacheStart)
            IN  /\ o.status = "done"
                /\ DOMAIN o.grouped = DOMAIN grouped
                /\ \A k \in DOMAIN grouped :
                      /\ SameBag(o.grouped[k], grouped[k])
                      /\ TimeOrdered(o.grouped[k])
                      /\ TimeOrdered(grouped[k])

C10_Witness ==
    /\ pc = "done"
    /\ \E p \in Orders :
          /\ p # commits
          /\ RunOutcome(p, cacheStart).grouped # grouped
    /\ out # unsorted

\* C11 (listing failure is fatal): when the listing of the revisions
\* fails the run has raised with nothing listed, nothing fetched, no cache
\* file opened or changed, and no Grouped Series.
C11_HistoryUnavailableFatal ==
    err = "CalledProcessError" =>
        /\ pc = "raised"
        /\ commits = <<>>
        /\ fetched = {}
        /\ wrote = {}
        /\ cache = cacheStart
        /\ out = <<>>
        /\ grouped = NoGroups

C11_Witness ==
    /\ pc = "raised"
    /\ err = "CalledProcessError"
    /\ prev.status = "killed"
    /\ \E r \in Refs : cache[PathOf[r]].kind = "absent"
    /\ \E r \in Refs : cache[PathOf[r]].kind = "map"

\* C12 (time-ordered groups): in the result of a completed run the sorted
\* sequence and every group are in non-decreasing timestamp order, and so
\* are the groups of the run under every other listing order.
C12_TimeOrderedGroups ==
    pc = "done" =>
        /\ TimeOrdered(out)
        /\ \A k \in DOMAIN grouped : TimeOrdered(grouped[k])
        /\ \A p \in Orders :
              LET g == RunOutcome(p, cacheStart).grouped
              IN  \A k \in DOMAIN g : TimeOrdered(g[k])

C12_Witness ==
    /\ pc = "done"
    /\ ~TimeOrdered(unsorted)
    /\ fetched # {}
    /\ \E r \in Refs \ fetched :
          /\ CacheLookup(cacheStart[PathOf[r]]) = "hit"
          /\ LoadRows(cacheStart[PathOf[r]]) # <<>>
    /\ \E k \in DOMAIN grouped :
          Cardinality(Times(grouped[k])) >= 2

\* C13 (self-healing): after a completed run every revision whose file
\* was undecodable when the run started has the current-version entry of
\* its normalised rows, which the next run reads as a hit.
C13_SelfHealing ==
    pc = "done" =>
        \A r \in Refs :
            cacheStart[PathOf[r]].kind = "undecodable" =>
                /\ cache[PathOf[r]] = CacheEntryFor(RowsOf(r))
                /\ CacheLookup(cache[PathOf[r]]) = "hit"

Units(race) == Get(race, "reporting_units", <<>>)

\* Number of reporting units in the first n races.
RECURSIVE UnitsUpTo(_, _)
UnitsUpTo(races, n) ==
    IF n = 0 THEN 0 ELSE UnitsUpTo(races, n - 1) + Len(Units(races[n]))

\* C14 (normaliser cardinality): the rows of a fetched document are one
\* per (race, reporting unit) pair, in document order, with the timestamp
\* and weight of the race; a name has as many rows as pairs carry it; a
\* document raises only when a race has no updated_at (AttributeError) or
\* a candidate no votes.total (KeyError), not when it has no units.
C14_NormalizerCardinality ==
    /\ pc = "raised" =>
          \/ content[commits[i]] = "malformed" /\ err = "AttributeError"
          \/ content[commits[i]] = "novotes" /\ err = "KeyError"
    /\ pc = "fetched" =>
          LET races == Get(git_show(commits[i]).doc, "races", <<>>)
          IN  /\ Len(rows) = UnitsUpTo(races, Len(races))
              /\ \A n \in 1..Len(races) :
                    \A u \in 1..Len(Units(races[n])) :
                       LET rec == rows[UnitsUpTo(races, n - 1) + u]
                       IN  /\ rec.timestamp.secs = races[n].updated_at.secs
                           /\ rec.timestamp.tzinfo = "UTC"
                           /\ rec.electoral_votes =
                                 Get(races[n], "electoral_votes", 0)
                           /\ rec.state_name =
                                 Get(Units(races[n])[u], "name", "Unknown")
                           /\ rec.votes =
                                 Get(Units(races[n])[u], "total_votes", 0)
              /\ \A j \in 1..Len(rows) :
                    Cardinality({m \in 1..Len(rows) :
                                   rows[m].state_name = rows[j].state_name})
                    = Cardinality(
                        {pr \in (1..Len(races)) \X (1..Len(rows)) :
                            /\ pr[2] <= Len(Units(races[pr[1]]))
                            /\ Get(Units(races[pr[1]])[pr[2]],
                                   "name", "Unknown") = rows[j].state_name})

C14_Witness ==
    /\ pc = "fetched"
    /\ content[commits[i]] = "B"
    /\ Cardinality({m \in 1..Len(rows) : rows[m].state_name = "Nevada"}) = 2
    /\ \E r \in wrote :
          /\ content[r] \in {"C", "N"}
          /\ cache[PathOf[r]] = CacheEntryFor(<<>>)

CurrentVersion(f) ==
    /\ f.kind = "map"
    /\ "version" \in DOMAIN f.map
    /\ f.map.version = CACHE_VERSION

\* C15 (a hit has no side effects): a revision whose file is a map of
\* CACHE_VERSION when the run starts is not fetched, its file is not opened
\* for writing and stays as it was, and once the loop is past it its rows
\* are in out.
C15_CacheHitNoSideEffects ==
    \A r \in Refs :
        CurrentVersion(cacheStart[PathOf[r]]) =>
            /\ r \notin fetched
            /\ r \notin wrote
            /\ cache[PathOf[r]] = cacheStart[PathOf[r]]
            /\ (Listed /\ Pos(r) < i) =>
                  LET rs == LoadRows(cacheStart[PathOf[r]])
                  IN  \A j \in 1..Len(rs) : Count(out, rs[j]) >= 1

C15_Witness ==
    /\ pc = "done"
    /\ wrote # {}
    /\ \E r \in Refs :
          /\ CurrentVersion(cacheStart[PathOf[r]])
          /\ Len(LoadRows(cacheStart[PathOf[r]])) >= 2

\* C16 (no cache content is fatal): when every revision can be fetched
\* and normalised, no content of a cache file makes the run raise.
C16_NoCacheContentFatal ==
    (Listed /\ \A r \in Refs : FetchResult(git_show(r)).ok) =>
        pc # "raised"

\* C17 (per-revision write isolation): distinct revisions have distinct
\* cache paths; a file changes only if the run opened it for writing for
\* its own revision, and a file that existed when the run started exists.
C17_WriteIsolation ==
    /\ \A r, q \in Refs : r # q => cache_path(r) # cache_path(q)
    /\ \A r \in Refs :
          /\ r \notin wrote =>
                cache[PathOf[r]] = cacheStart[PathOf[r]]
          /\ cacheStart[PathOf[r]].kind # "absent" =>
                cache[PathOf[r]].kind # "absent"

C17_Witness ==
    \E r \in wrote :
        /\ cache[PathOf[r]].kind = "map"
        /\ cache[PathOf[r]] # cacheStart[PathOf[r]]
        /\ \E q \in Refs \ wrote :
              /\ PathOf[q].dir = PathOf[r].dir
              /\ cacheStart[PathOf[q]].kind = "map"

\* What revision r adds to out in this run.
Contribution(r) ==
    IF r \in fetched THEN RowsOf(r)
    ELSE IF CacheLookup(cacheStart[PathOf[r]]) = "hit"
         THEN LoadRows(cacheStart[PathOf[r]])
         ELSE <<>>

RECURSIVE ConcatContributions(_, _)
ConcatContributions(order, n) ==
    IF n = 0 THEN <<>>
    ELSE ConcatContributions(order, n - 1) \o Contribution(order[n])

\* Every revision can be fetched and its file is absent, of another
\* version, or the entry of its own rows.
AllReadable ==
    \A r \in Refs :
        /\ FetchResult(git_show(r)).ok
        /\ \/ CacheLookup(cacheStart[PathOf[r]]) = "miss"
           \/ cacheStart[PathOf[r]] = CacheEntryFor(RowsOf(r))

\* C18 (exactly-once contribution): in a completed run out before the
\* sort is, revision by revision, the rows fetched or else the rows of the
\* entry, never both; the sort keeps them all; and when every revision is
\* readable out is a permutation of the normalised rows of all revisions.
C18_ExactlyOnce ==
    pc = "done" =>
        /\ unsorted = ConcatContributions(commits, Len(commits))
        /\ SameBag(out, unsorted)
        /\ \A r \in fetched :
              CacheLookup(cacheStart[PathOf[r]]) = "miss"
        /\ AllReadable =>
              SameBag(out, ConcatRows(commits, Len(commits), {}))

C18_Witness ==
    /\ pc = "done"
    /\ AllReadable
    /\ fetched # {}
    /\ fetched # Refs
    /\ Len(out) >= 5

\* The steps of a run agree with the run as a function.
StepsAgreeWithRunOutcome ==
    pc = "done" =>
        /\ RunOutcome(commits, cacheStart).status = "done"
        /\ RunOutcome(commits, cacheStart).grouped = grouped
        /\ RunOutcome(commits, cacheStart).cache = cache

====
